---- MODULE Spec2Model ----
(***************************************************************************)
(* Model of the conservation-window search of probe_creator.py:            *)
(* Probes.probefinder (identity profile, descending window sizes),         *)
(* Probes.window (sliding-window generator), Probes.probe_location and     *)
(* Probes.probes, for one sample with one aligned allele file; and of the  *)
(* work queue of Probes.allelealigner and Probes.alignthreads before them. *)
(*                                                                         *)
(* Percent identities and means are the code's two-decimal floats; they    *)
(* are kept as integers in hundredths of a percent (66.67 is 6667).        *)
(***************************************************************************)
EXTENDS Integers, Sequences, FiniteSets, TLC

VARIABLES
    letters,      \* keys of every line of metadata.pssm
    pssm,         \* metadata.pssm: one line (key -> count) per alignment column
    consensus,    \* metadata.consensus, one character per alignment column
    alleleset,    \* sample.alleleset: the raw allele strings
    min_size,     \* self.min
    max_size,     \* self.max
    cutoff,       \* self.cutoff, in hundredths
    pep479,       \* the interpreter turns StopIteration inside a generator into RuntimeError
    pc,           \* position in Probes.main
    err,          \* the exception that ended the run, "none" otherwise
    identity,     \* metadata.identity
    passing,      \* probefinder's local flag
    i,            \* probefinder's loop variable: the size under evaluation
    windows,      \* probefinder's local: what the generator of the last size yielded
    gene_windows, \* metadata.windows: one windowdata per evaluated size
    w,            \* probe_location: index of the current entry of gene.windows
    s,            \* probe_location: index of the current entry of window.sliding
    passed,       \* probe_location's local flag
    location,     \* sample.location
    probeallele,  \* sample.probeallele
    cpus,         \* self.cpus
    tasks,        \* how many (sample, allele file) pairs allelealigner queues
    threads,      \* how many worker threads allelealigner has started
    puts,         \* how many tasks allelealigner has put
    queue,        \* self.queue: the items waiting
    unfinished_tasks, \* self.queue.unfinished_tasks
    tpc,          \* per worker thread: its position in alignthreads
    item,         \* per worker thread: the task it holds, 0 for none
    aligned,      \* per task: the state of its aligned file
    gets,         \* per task: how often a worker has taken it (history)
    dones         \* per task: how often task_done() was called for it (history)

vars == <<letters, pssm, consensus, alleleset, min_size, max_size, cutoff, pep479,
          pc, err, identity, passing, i, windows, gene_windows, w, s, passed,
          location, probeallele, cpus, tasks, threads, puts, queue,
          unfinished_tasks, tpc, item, aligned, gets, dones>>

aligner == <<cpus, tasks, threads, puts, queue, unfinished_tasks, tpc, item,
             aligned, gets, dones>>

inputs == <<letters, pssm, consensus, alleleset, min_size, max_size, cutoff, pep479>>

----------------------------------------------------------------------------
(* Bounds *)

MaxLen == 3      \* alignment columns
MaxSize == 3     \* largest value of self.max
MaxCpus == 2     \* largest value of self.cpus
MaxTasks == 2    \* most alignment tasks queued

(* The attribute has not been assigned. *)
NoLocation == <<>>
Unset == -1

----------------------------------------------------------------------------
(* Helpers: arithmetic and strings *)

SeqMin(q) == CHOOSE x \in {q[k] : k \in DOMAIN q} : \A k \in DOMAIN q : x <= q[k]

SeqMax(q) == CHOOSE x \in {q[k] : k \in DOMAIN q} : \A k \in DOMAIN q : x >= q[k]

RECURSIVE SeqSum(_)
SeqSum(q) == IF q = <<>> THEN 0 ELSE Head(q) + SeqSum(Tail(q))

(* float('{:.2f}'.format(num / den * scale)) in hundredths: the nearest     *)
(* hundredth, an exact tie going to the even one.  (On exact ties of means *)
(* over four or more columns the float sum can land one hundredth beside.) *)
Round2(num, den) ==
    LET fl == num \div den
        twice == 2 * (num - fl * den)
    IN  IF twice > den \/ (twice = den /\ fl % 2 = 1) THEN fl + 1 ELSE fl

Digits == <<"0", "1", "2", "3", "4", "5", "6", "7", "8", "9">>

RECURSIVE IntToStr(_)
IntToStr(n) ==
    IF n < 10 THEN <<Digits[n + 1]>>
    ELSE IntToStr(n \div 10) \o <<Digits[(n % 10) + 1]>>

RECURSIVE StrToInt(_)
StrToInt(str) ==
    LET d == CHOOSE k \in 0..9 : Digits[k + 1] = str[Len(str)]
    IN  IF Len(str) = 1 THEN d
        ELSE 10 * StrToInt(SubSeq(str, 1, Len(str) - 1)) + d

RECURSIVE Split(_, _)
Split(str, sep) ==
    IF \A k \in DOMAIN str : str[k] # sep THEN <<str>>
    ELSE LET p == CHOOSE k \in DOMAIN str :
                      str[k] = sep /\ \A j \in 1..(k - 1) : str[j] # sep
         IN  <<SubSeq(str, 1, p - 1)>> \o Split(SubSeq(str, p + 1, Len(str)), sep)

PySliceInclusive(str, start, stop) ==
    LET hi == IF stop + 1 < Len(str) THEN stop + 1 ELSE Len(str)
    IN  IF start >= hi THEN <<>> ELSE SubSeq(str, start + 1, hi)

(* str[start:stop] for non-negative offsets *)
PySlice(str, start, stop) ==
    LET hi == IF stop < Len(str) THEN stop ELSE Len(str)
    IN  IF start >= hi THEN <<>> ELSE SubSeq(str, start + 1, hi)

----------------------------------------------------------------------------
(* Inputs *)

Bases == {"A", "C", "G", "T"}

(* Key sets of the PSSM lines: with a gap key (the alignment has a gap     *)
(* somewhere) and without one.  The four base keys are taken as present.   *)
KeySets == {{"A", "C", "G", "T", "-"}, {"A", "C", "G", "T"}}

(* Columns of three aligned rows: counts of A, C, G, T and gap; a row that *)
(* holds another symbol ('N', the padding '.') is counted under no key.    *)
ColumnCounts ==
    { [A |-> 3, C |-> 0, G |-> 0, T |-> 0, gap |-> 0],
      [A |-> 2, C |-> 1, G |-> 0, T |-> 0, gap |-> 0],
      [A |-> 0, C |-> 0, G |-> 0, T |-> 1, gap |-> 1],
      [A |-> 0, C |-> 0, G |-> 0, T |-> 0, gap |-> 3],
      [A |-> 0, C |-> 0, G |-> 0, T |-> 0, gap |-> 0] }

PssmLine(keys, c) ==
    [k \in keys |-> IF k = "A" THEN c.A ELSE IF k = "C" THEN c.C
                    ELSE IF k = "G" THEN c.G ELSE IF k = "T" THEN c.T ELSE c.gap]

PssmLines(keys) == {PssmLine(keys, c) : c \in ColumnCounts}

ConsensusLetters == {"A", "X"}

AlleleSets ==
    { {<<"A", "C", "G", "T">>, <<"A", "C", "G", "A">>, <<"A", "C">>},
      {<<"T", "T", "G", "A">>, <<"T">>} }

Cutoffs == {5000, 7000}

----------------------------------------------------------------------------
(* probefinder: the identity of one column (lines 219-227) *)

MaxOfBases(line) == SeqMax(<<line["A"], line["C"], line["G"], line["T"]>>)

(* try: the five keys; except KeyError (no gap key): the four bases *)
LineIdentity(line) ==
    IF "-" \in DOMAIN line
    THEN LET total == line["A"] + line["C"] + line["G"] + line["T"] + line["-"]
         IN  IF total = 0 THEN [err |-> "ZeroDivisionError", value |-> 0]
             ELSE [err |-> "none", value |-> Round2(MaxOfBases(line) * 10000, total)]
    ELSE LET total == line["A"] + line["C"] + line["G"] + line["T"]
         IN  IF total = 0 THEN [err |-> "ZeroDivisionError", value |-> 0]
             ELSE [err |-> "none", value |-> Round2(MaxOfBases(line) * 10000, total)]

(* The columns before the first one whose identity fails. *)
FirstFailure(lines) ==
    IF \A k \in DOMAIN lines : LineIdentity(lines[k]).err = "none" THEN Len(lines) + 1
    ELSE CHOOSE k \in DOMAIN lines :
             /\ LineIdentity(lines[k]).err # "none"
             /\ \A j \in 1..(k - 1) : LineIdentity(lines[j]).err = "none"

----------------------------------------------------------------------------
(* window (lines 322-336) *)

RECURSIVE Slide(_, _)
Slide(win, rest) ==
    IF rest = <<>> THEN <<win>>
    ELSE <<win>> \o Slide(Tail(win) \o <<Head(rest)>>, Tail(rest))

(* yielded: the windows in order; raised: the generator ended by an        *)
(* exception instead of returning.                                         *)
Window(iterable, size) ==
    IF size > Len(iterable)
    THEN [yielded |-> <<>>, raised |-> pep479]
    ELSE [yielded |-> Slide(SubSeq(iterable, 1, size),
                            SubSeq(iterable, size + 1, Len(iterable))),
          raised |-> FALSE]

----------------------------------------------------------------------------
(* probefinder: one window size (lines 238-269) *)

(* float('{:.2f}'.format(numpy.mean(window))) *)
Mean(window) == Round2(SeqSum(window), Len(window))

PassesOrEqual(window) == SeqMin(window) >= cutoff

(* line 252 *)
Passes(window) == SeqMin(window) > cutoff

(* line 254 *)
FormatLocation(n, size) == IntToStr(n) \o <<":">> \o IntToStr(n + size)

SlidingSequenceShifted(n, size) == PySlice(consensus, n + 1, n + size + 1)

(* line 257 *)
SlidingSequence(n, size) == PySlice(consensus, n, n + size)

(* lines 260-261 *)
UpdateMax(mean, wmax) == IF mean >= wmax THEN mean ELSE wmax

(* lines 262-263; wmax is windowdata.max as line 260 has just set it *)
UpdateMin(mean, wmax, wmin) == IF mean <= wmax THEN mean ELSE wmin

(* lines 250-257 *)
SlidingData(window, n, size) ==
    [location |-> FormatLocation(n, size),
     min      |-> SeqMin(window),
     mean     |-> Mean(window),
     sequence |-> SlidingSequence(n, size)]

(* lines 238-241 *)
NewWindowData(size) == [size |-> size, max |-> 0, min |-> Unset, sliding |-> <<>>]

(* lines 248-267: the loop over the yielded windows, n counting them *)
RECURSIVE Scan(_, _, _)
Scan(wins, n, windowdata) ==
    IF n >= Len(wins) THEN windowdata
    ELSE LET window == wins[n + 1]
             slidingdata == SlidingData(window, n, windowdata.size)
             newmax == UpdateMax(slidingdata.mean, windowdata.max)
         IN  IF Passes(window)
             THEN Scan(wins, n + 1,
                       [windowdata EXCEPT
                            !.max = newmax,
                            !.min = UpdateMin(slidingdata.mean, newmax, windowdata.min),
                            !.sliding = Append(windowdata.sliding, slidingdata)])
             ELSE Scan(wins, n + 1, windowdata)

NowPassingNever(flag, windowdata) == flag

(* line 266, as it stands after the loop of line 248 *)
NowPassing(flag, windowdata) == flag \/ windowdata.sliding # <<>>

ShouldScanAlways(flag) == TRUE

(* line 237 *)
ShouldScan(flag) == ~flag

(* the statement after the loop of line 236, once the sizes are exhausted *)
AfterSize(size) == IF size - 1 < min_size THEN "probe_location" ELSE "sizes"

----------------------------------------------------------------------------
(* probe_location (lines 286-293) and probes (lines 299-306) *)

QualifiesAgain(sliding, window, flag) ==
    /\ DOMAIN sliding # {}
    /\ sliding.mean = window.max
    /\ sliding.mean >= window.min

(* lines 290-291 *)
Qualifies(sliding, window, flag) ==
    /\ DOMAIN sliding # {}
    /\ sliding.mean = window.max
    /\ sliding.mean >= window.min
    /\ ~flag

(* line 301 *)
ParseLocation(loc) ==
    LET parts == Split(loc, ":")
    IN  [start |-> StrToInt(parts[1]), stop |-> StrToInt(parts[2])]

----------------------------------------------------------------------------
(* allelealigner and alignthreads (lines 131-169).  queue.Queue is the     *)
(* library's: put, get, task_done and join each act under the queue's      *)
(* lock, so each is one step.                                              *)

(* Queue.join: it waits while unfinished_tasks is not zero *)
JoinMayReturn(n) == n = 0

AfterAlignDies(ok) == IF ok THEN "task_done" ELSE "dead"

(* lines 164-169: whether clustalomega() returns or raises and the file is *)
(* copied, the thread goes on to task_done()                               *)
AfterAlign(ok) == "task_done"

(* lines 137-140, one thread *)
StartThread ==
    /\ pc = "allelealigner"
    /\ threads < cpus
    /\ threads' = threads + 1
    /\ tpc' = [tpc EXCEPT ![threads + 1] = "get"]
    /\ UNCHANGED <<inputs, cpus, tasks, puts, queue, unfinished_tasks, item,
                   aligned, gets, dones, pc, err, identity, passing, i, windows,
                   gene_windows, w, s, passed, location, probeallele>>

(* lines 141-155, one (sample, outputfile) pair *)
Put ==
    /\ pc = "allelealigner"
    /\ threads = cpus
    /\ puts < tasks
    /\ puts' = puts + 1
    /\ queue' = Append(queue, puts + 1)
    /\ unfinished_tasks' = unfinished_tasks + 1
    /\ UNCHANGED <<inputs, cpus, tasks, threads, tpc, item,
                   aligned, gets, dones, pc, err, identity, passing, i, windows,
                   gene_windows, w, s, passed, location, probeallele>>

(* line 156 and the return to main, whose next call is probefinder *)
Join ==
    /\ pc = "allelealigner"
    /\ threads = cpus
    /\ puts = tasks
    /\ JoinMayReturn(unfinished_tasks)
    /\ pc' = "identity"
    /\ UNCHANGED <<inputs, aligner, err, identity, passing, i, windows,
                   gene_windows, w, s, passed, location, probeallele>>

(* line 160: get() blocks while the queue is empty *)
Get(t) ==
    /\ tpc[t] = "get"
    /\ queue # <<>>
    /\ item' = [item EXCEPT ![t] = Head(queue)]
    /\ queue' = Tail(queue)
    /\ gets' = [gets EXCEPT ![Head(queue)] = @ + 1]
    /\ tpc' = [tpc EXCEPT ![t] = "align"]
    /\ UNCHANGED <<inputs, cpus, tasks, threads, puts, unfinished_tasks,
                   aligned, dones, pc, err, identity, passing, i, windows,
                   gene_windows, w, s, passed, location, probeallele>>

(* lines 161-168: nothing if the aligned file is there; else the command   *)
(* writes it, or fails and the allele file is copied in its place          *)
Align(t) ==
    /\ tpc[t] = "align"
    /\ \E ok \in BOOLEAN :
          /\ IF aligned[item[t]] = "absent"
             THEN aligned' = [aligned EXCEPT ![item[t]] =
                                 IF ok THEN "aligned" ELSE "copied"]
             ELSE UNCHANGED aligned
          /\ tpc' = [tpc EXCEPT ![t] =
                        IF aligned[item[t]] = "absent" THEN AfterAlign(ok)
                        ELSE "task_done"]
    /\ UNCHANGED <<inputs, cpus, tasks, threads, puts, queue, unfinished_tasks,
                   item, gets, dones, pc, err, identity, passing, i, windows,
                   gene_windows, w, s, passed, location, probeallele>>

(* line 169 and the loop back to line 159 *)
TaskDone(t) ==
    /\ tpc[t] = "task_done"
    /\ unfinished_tasks' = unfinished_tasks - 1
    /\ dones' = [dones EXCEPT ![item[t]] = @ + 1]
    /\ item' = [item EXCEPT ![t] = 0]
    /\ tpc' = [tpc EXCEPT ![t] = "get"]
    /\ UNCHANGED <<inputs, cpus, tasks, threads, puts, queue,
                   aligned, gets, pc, err, identity, passing, i, windows,
                   gene_windows, w, s, passed, location, probeallele>>

(* the state allelealigner leaves behind for one sample with one allele    *)
(* file and one worker: the task taken, aligned and marked done, the       *)
(* worker back in get()                                                    *)
AlignerReturned ==
    /\ cpus = 1
    /\ tasks = 1
    /\ threads = 1
    /\ puts = 1
    /\ queue = <<>>
    /\ unfinished_tasks = 0
    /\ tpc = [t \in 1..1 |-> "get"]
    /\ item = [t \in 1..1 |-> 0]
    /\ aligned = [k \in 1..1 |-> "aligned"]
    /\ gets = [k \in 1..1 |-> 1]
    /\ dones = [k \in 1..1 |-> 1]

(* after __init__ (lines 338-354), at the call of allelealigner; the       *)
(* aligned files may be left from an earlier run                           *)
QueueInit ==
    /\ letters = {"A", "C", "G", "T"}
    /\ pssm = <<[A |-> 3, C |-> 0, G |-> 0, T |-> 0]>>
    /\ consensus = <<"A">>
    /\ alleleset = {<<"A", "C", "G", "T">>}
    /\ max_size = 1
    /\ min_size = 1
    /\ cutoff = 7000
    /\ pep479 = TRUE
    /\ pc = "allelealigner"
    /\ err = "none"
    /\ identity = <<>>
    /\ passing = FALSE
    /\ i = 0
    /\ windows = <<>>
    /\ gene_windows = <<>>
    /\ w = 1
    /\ s = 1
    /\ passed = FALSE
    /\ location = NoLocation
    /\ probeallele = {}
    /\ cpus \in 1..MaxCpus
    /\ tasks \in 0..MaxTasks
    /\ threads = 0
    /\ puts = 0
    /\ queue = <<>>
    /\ unfinished_tasks = 0
    /\ tpc = [t \in 1..cpus |-> "unstarted"]
    /\ item = [t \in 1..cpus |-> 0]
    /\ aligned \in [1..tasks -> {"absent", "present"}]
    /\ gets = [k \in 1..tasks |-> 0]
    /\ dones = [k \in 1..tasks |-> 0]

QueueNext ==
    \/ StartThread
    \/ Put
    \/ Join
    \/ \E t \in 1..cpus : Get(t)
    \/ \E t \in 1..cpus : Align(t)
    \/ \E t \in 1..cpus : TaskDone(t)

(* The main thread and every worker thread are scheduled again and again.  *)
QueueSpec ==
    /\ QueueInit
    /\ [][QueueNext]_vars
    /\ WF_vars(StartThread \/ Put \/ Join)
    /\ \A t \in 1..MaxCpus : WF_vars(t <= cpus /\ (Get(t) \/ Align(t) \/ TaskDone(t)))

----------------------------------------------------------------------------
(* The state machine: Probes.main from probefinder on *)

Init ==
    /\ letters \in KeySets
    /\ \E len \in 1..MaxLen :
          /\ pssm \in [1..len -> PssmLines(letters)]
          /\ consensus \in [1..len -> ConsensusLetters]
    /\ alleleset \in AlleleSets
    /\ max_size \in 1..MaxSize
    /\ min_size \in 1..max_size
    /\ cutoff \in Cutoffs
    /\ pep479 \in BOOLEAN
    /\ pc = "identity"
    /\ err = "none"
    /\ identity = <<>>
    /\ passing = FALSE
    /\ i = 0
    /\ windows = <<>>
    /\ gene_windows = <<>>
    /\ w = 1
    /\ s = 1
    /\ passed = FALSE
    /\ location = NoLocation
    /\ probeallele = {}
    /\ AlignerReturned

(* lines 217-233 *)
BuildIdentity ==
    /\ pc = "identity"
    /\ LET f == FirstFailure(pssm)
       IN  /\ identity' = [k \in 1..(f - 1) |-> LineIdentity(pssm[k]).value]
           /\ IF f <= Len(pssm)
              THEN /\ pc' = "failed"
                   /\ err' = LineIdentity(pssm[f]).err
                   /\ UNCHANGED <<i, passing, gene_windows>>
              ELSE /\ pc' = "sizes"
                   /\ gene_windows' = <<>>
                   /\ passing' = FALSE
                   /\ i' = max_size
                   /\ UNCHANGED err
    /\ UNCHANGED <<inputs, aligner, windows, w, s, passed, location, probeallele>>

(* lines 236-269, one size that is evaluated *)
ScanSize ==
    /\ pc = "sizes"
    /\ i >= min_size
    /\ ShouldScan(passing)
    /\ LET gen == Window(identity, i)
           windowdata == Scan(gen.yielded, 0, NewWindowData(i))
       IN  /\ windows' = gen.yielded
           /\ IF gen.raised
              THEN /\ pc' = "failed"
                   /\ err' = "RuntimeError"
                   /\ UNCHANGED <<i, passing, gene_windows>>
              ELSE /\ gene_windows' = Append(gene_windows, windowdata)
                   /\ passing' = NowPassing(passing, windowdata)
                   /\ i' = i - 1
                   /\ pc' = AfterSize(i)
                   /\ UNCHANGED err
    /\ UNCHANGED <<inputs, aligner, identity, w, s, passed, location, probeallele>>

(* lines 236-237, one size that is skipped because a larger one passed *)
SkipSize ==
    /\ pc = "sizes"
    /\ i >= min_size
    /\ ~ShouldScan(passing)
    /\ i' = i - 1
    /\ pc' = AfterSize(i)
    /\ UNCHANGED <<inputs, aligner, err, identity, passing, windows, gene_windows,
                   w, s, passed, location, probeallele>>

(* lines 286-293, one entry of window.sliding *)
ExamineSliding ==
    /\ pc = "probe_location"
    /\ s <= Len(gene_windows[w].sliding)
    /\ LET window == gene_windows[w]
           sliding == window.sliding[s]
       IN  IF Qualifies(sliding, window, passed)
           THEN location' = sliding.location /\ passed' = TRUE
           ELSE UNCHANGED <<location, passed>>
    /\ s' = s + 1
    /\ UNCHANGED <<inputs, aligner, pc, err, identity, passing, i, windows, gene_windows,
                   w, probeallele>>

(* lines 283-286, the next entry of gene.windows, or the end of the method *)
NextWindow ==
    /\ pc = "probe_location"
    /\ s > Len(gene_windows[w].sliding)
    /\ IF w = Len(gene_windows)
       THEN pc' = "probes" /\ UNCHANGED <<w, s, passed>>
       ELSE pc' = pc /\ w' = w + 1 /\ s' = 1 /\ passed' = FALSE
    /\ UNCHANGED <<inputs, aligner, err, identity, passing, i, windows, gene_windows,
                   location, probeallele>>

(* lines 299-306 *)
ProbesExtract ==
    /\ pc = "probes"
    /\ IF location = NoLocation
       THEN /\ pc' = "failed"
            /\ err' = "AttributeError"
            /\ UNCHANGED probeallele
       ELSE /\ LET range == ParseLocation(location)
               IN  probeallele' = {PySlice(allele, range.start, range.stop) :
                                      allele \in alleleset}
            /\ pc' = "done"
            /\ UNCHANGED err
    /\ UNCHANGED <<inputs, aligner, identity, passing, i, windows, gene_windows,
                   w, s, passed, location>>

Next ==
    \/ BuildIdentity
    \/ ScanSize
    \/ SkipSize
    \/ ExamineSliding
    \/ NextWindow
    \/ ProbesExtract

Spec == Init /\ [][Next]_vars

----------------------------------------------------------------------------
(* What the claims speak of, stated on the profile itself *)

ProfileBuilt == pc \in {"sizes", "probe_location", "probes", "done"}
                  \/ (pc = "failed" /\ err \in {"RuntimeError", "AttributeError"})

LocationResolved == pc \in {"probes", "done"}

(* offsets k whose window [k, k+size) lies in the profile and has every    *)
(* column above the cutoff                                                 *)
PassOffsets(size) ==
    {k \in 0..(Len(identity) - size) :
        \A j \in (k + 1)..(k + size) : identity[j] > cutoff}

MeanAt(k, size) == Round2(SeqSum(SubSeq(identity, k + 1, k + size)), size)

PassingSizes == {size \in min_size..max_size : PassOffsets(size) # {}}

SelectedSize == CHOOSE size \in PassingSizes : \A other \in PassingSizes : other <= size

BestMean(size) ==
    CHOOSE m \in {MeanAt(k, size) : k \in PassOffsets(size)} :
        \A k \in PassOffsets(size) : MeanAt(k, size) <= m

BestOffset(size) ==
    CHOOSE k \in PassOffsets(size) :
        /\ MeanAt(k, size) = BestMean(size)
        /\ \A j \in PassOffsets(size) : MeanAt(j, size) = BestMean(size) => k <= j

RangeText(start, stop) == IntToStr(start) \o <<":">> \o IntToStr(stop)

(* the characters of str at offsets start .. stop-1 that exist *)
CharsIn(str, start, stop) ==
    LET hi == IF stop < Len(str) THEN stop ELSE Len(str)
    IN  [j \in 1..(hi - start) |-> str[start + j]]

----------------------------------------------------------------------------
(* C1: largest-first policy.  The entries of gene.windows are the sizes    *)
(* from max_size downward; an entry with a passing window is the last one, *)
(* and no entry of a smaller size has a passing window.                    *)
C1_LargestFirst ==
    \A a \in DOMAIN gene_windows :
        /\ gene_windows[a].size = max_size - a + 1
        /\ gene_windows[a].size >= min_size
        /\ gene_windows[a].sliding # <<>> =>
              /\ a = Len(gene_windows)
              /\ \A b \in DOMAIN gene_windows :
                    gene_windows[b].size < gene_windows[a].size
                        => gene_windows[b].sliding = <<>>
              /\ (pc # "sizes" => gene_windows[a].size = SelectedSize)

C1_Witness ==
    /\ pc = "probe_location"
    /\ Len(gene_windows) >= 2
    /\ gene_windows[Len(gene_windows)].sliding # <<>>
    /\ gene_windows[Len(gene_windows)].size > min_size
    /\ PassOffsets(min_size) # {}

(* C2: when no window of any size in range passes, the run ends without an *)
(* exception and with the location absent.                                 *)
C2_NoProbeFoundIsNormal ==
    (ProfileBuilt /\ max_size <= Len(identity) /\ PassingSizes = {})
        => (err = "none" /\ location = NoLocation)

(* C3: the location is that of the leftmost window, among the passing      *)
(* windows of the selected size, whose mean is the best mean of that size. *)
C3_LeftmostBestMean ==
    (LocationResolved /\ PassingSizes # {})
        => location = RangeText(BestOffset(SelectedSize),
                                BestOffset(SelectedSize) + SelectedSize)

C3_Witness ==
    /\ pc = "done"
    /\ PassingSizes # {}
    /\ \E k0, k1, k2 \in PassOffsets(SelectedSize) :
          /\ k0 < k1 /\ k1 < k2
          /\ MeanAt(k0, SelectedSize) < BestMean(SelectedSize)
          /\ MeanAt(k1, SelectedSize) = BestMean(SelectedSize)
          /\ MeanAt(k2, SelectedSize) = BestMean(SelectedSize)
          /\ location = RangeText(k1, k1 + SelectedSize)

(* C4: the generator never fails, and for the size last evaluated it       *)
(* yielded max(0, L - size + 1) windows, the k-th being the columns        *)
(* k .. k+size-1 of the profile.                                           *)
C4_WindowCount ==
    /\ err # "RuntimeError"
    /\ (pc \in {"sizes", "probe_location"} /\ gene_windows # <<>>) =>
          LET size == gene_windows[Len(gene_windows)].size
              count == IF Len(identity) - size + 1 > 0
                       THEN Len(identity) - size + 1 ELSE 0
          IN  /\ Len(windows) = count
              /\ \A k \in 1..count :
                    windows[k] = [j \in 1..size |-> identity[k + j - 1]]

(* C5: an evaluated size records exactly the windows whose minimum is      *)
(* strictly above the cutoff, in increasing offset order, each under the   *)
(* text 'k:k+size' of its offset k.                                        *)
C5_PassCriterion ==
    \A a \in DOMAIN gene_windows :
        LET size == gene_windows[a].size
            sliding == gene_windows[a].sliding
            offsets == PassOffsets(size)
        IN  /\ Len(sliding) = Cardinality(offsets)
            /\ \A k \in offsets :
                  LET rank == Cardinality({j \in offsets : j < k}) + 1
                  IN  /\ sliding[rank].location = RangeText(k, k + size)
                      /\ sliding[rank].min > cutoff

C5_Witness ==
    \E a \in DOMAIN gene_windows :
        LET size == gene_windows[a].size
        IN  /\ \E k \in PassOffsets(size) : k > 0
            /\ \E k \in 0..(Len(identity) - size) :
                  /\ k \notin PassOffsets(size)
                  /\ SeqMin(SubSeq(identity, k + 1, k + size)) = cutoff

(* C6: probes() leaves the set of the slices [start, stop) of the alleles, *)
(* a short allele giving the characters it has.                            *)
C6_Extraction ==
    pc = "done" =>
        LET start == BestOffset(SelectedSize)
            stop == start + SelectedSize
        IN  probeallele = {CharsIn(allele, start, stop) : allele \in alleleset}

C6_Witness ==
    /\ pc = "done"
    /\ Cardinality(probeallele) < Cardinality(alleleset)
    /\ \E allele \in alleleset :
          /\ Len(allele) < BestOffset(SelectedSize) + SelectedSize
          /\ Len(allele) > BestOffset(SelectedSize)
          /\ CharsIn(allele, BestOffset(SelectedSize), Len(allele)) \in probeallele

(* C7: the consensus sliced at the selected location is the sequence       *)
(* recorded on the winning window, and the range is as long as its size.   *)
C7_RoundTrip ==
    (LocationResolved /\ location # NoLocation) =>
        \A a \in DOMAIN gene_windows :
            \A p \in DOMAIN gene_windows[a].sliding :
                gene_windows[a].sliding[p].location = location =>
                    LET range == ParseLocation(location)
                    IN  /\ CharsIn(consensus, range.start, range.stop)
                              = gene_windows[a].sliding[p].sequence
                        /\ range.stop - range.start = gene_windows[a].size
                        /\ Len(gene_windows[a].sliding[p].sequence) = gene_windows[a].size

C7_Witness ==
    /\ pc = "done"
    /\ ParseLocation(location).start > 0
    /\ ParseLocation(location).stop - ParseLocation(location).start >= 2
    /\ consensus[ParseLocation(location).start + 1] # consensus[ParseLocation(location).stop]

(* C8: the max and min recorded for a size with passing windows are the    *)
(* largest and the smallest mean of its passing windows.                   *)
C8_Statistics ==
    \A a \in DOMAIN gene_windows :
        LET sliding == gene_windows[a].sliding
            means == {sliding[p].mean : p \in DOMAIN sliding}
        IN  sliding # <<>> =>
                /\ gene_windows[a].max \in means
                /\ gene_windows[a].min \in means
                /\ \A m \in means : gene_windows[a].min <= m /\ m <= gene_windows[a].max

(* C9: building the profile never fails; it has one value per column, each *)
(* in [0, 100] and equal to 100 * (largest of A, C, G, T) / (A + C + G + T *)
(* + gap).                                                                 *)
C9_ProfileInvariant ==
    /\ err # "ZeroDivisionError"
    /\ pc # "identity" =>
          /\ Len(identity) = Len(pssm)
          /\ \A k \in DOMAIN identity :
                LET line == pssm[k]
                    count(key) == IF key \in DOMAIN line THEN line[key] ELSE 0
                    top == CHOOSE c \in {count(b) : b \in Bases} :
                               \A b \in Bases : count(b) <= c
                    total == count("A") + count("C") + count("G") + count("T") + count("-")
                IN  /\ identity[k] \in 0..10000
                    /\ identity[k] = Round2(top * 10000, total)

(* C10: the location is written once: only probe_location assigns it, only *)
(* while it is absent, and to the first window of the entry that has the   *)
(* entry's best mean; nothing changes it afterwards.                       *)
C10_WriteOnce ==
    [][location' # location =>
          /\ location = NoLocation
          /\ pc = "probe_location"
          /\ location' = gene_windows[w].sliding[s].location
          /\ \A a \in 1..(w - 1) : gene_windows[a].sliding = <<>>
          /\ \A p \in 1..(s - 1) :
                gene_windows[w].sliding[p].mean # gene_windows[w].sliding[s].mean]_vars

C10_Witness ==
    /\ pc = "probe_location"
    /\ location # NoLocation
    /\ s <= Len(gene_windows[w].sliding)
    /\ gene_windows[w].sliding[s].mean = gene_windows[w].max

(* C11: every queued task is taken by one worker and marked done once,     *)
(* join() returns (and probefinder starts) only when every queued task has *)
(* been marked done, also when the command fails and the file is copied,   *)
(* and under fair scheduling allelealigner does return.                    *)
C11_QueueProtocol ==
    /\ [](/\ \A k \in 1..tasks : gets[k] <= 1 /\ dones[k] <= 1 /\ dones[k] <= gets[k]
          /\ \A t1, t2 \in 1..cpus : (t1 # t2 /\ item[t1] # 0) => item[t1] # item[t2]
          /\ \A t \in 1..cpus : item[t] # 0 =>
                gets[item[t]] = 1 /\ dones[item[t]] = 0
          /\ unfinished_tasks = Cardinality({k \in 1..puts : dones[k] = 0})
          /\ pc # "allelealigner" =>
                /\ puts = tasks
                /\ \A k \in 1..tasks :
                      gets[k] = 1 /\ dones[k] = 1 /\ aligned[k] # "absent")
    /\ <>(pc = "identity")

C11_Witness ==
    /\ pc = "identity"
    /\ cpus >= 2
    /\ tasks >= 2
    /\ \E k \in 1..tasks : aligned[k] = "copied"
    /\ \A k \in 1..tasks : dones[k] = 1

====
